---- MODULE Spec2Model ----
(***************************************************************************)
(* Viewport / gesture model of the interactive candle chart                *)
(* (frontend/components/charts/interactive-candle-chart.tsx) and of the    *)
(* functions of lib/charts/utils: the viewport slicer and the indicators   *)
(* (moving average, RSI, EMA, MACD).                                       *)
(*                                                                         *)
(* JavaScript numbers are modelled as exact rationals [n, d] in lowest     *)
(* terms with d > 0.  React state set by a handler is committed (re-render *)
(* and the ref-synchronising effects of lines 173-179) before the next     *)
(* event is delivered, so each action is a handler plus its commit.        *)
(*                                                                         *)
(* Spec is the chart: its events in any order.  LibSpec is one call of a   *)
(* function of lib/charts/utils: the arguments are chosen initially and    *)
(* the action of the function records what it returns or throws.           *)
(***************************************************************************)
EXTENDS Integers, Sequences, FiniteSets, TLC

\* ------------------------------------------------------------------ bounds
MaxSteps == 5
MaxPointers == 1

\* ------------------------------------------------------- program constants
PRICE_LABEL_WIDTH == 48
MIN_VISIBLE == 14

\* ------------------------------------------------------ inputs of the model
Null == [null |-> TRUE]
CandleCounts == {3, 28}
InitialVisibleCounts == {2, 20}
LayoutSizes == { [width |-> 40, height |-> 100], [width |-> 148, height |-> 100],
                 [width |-> 248, height |-> 100], [width |-> 248, height |-> 200] }
Translations == {-60, 40}
Scales == { [n |-> 1, d |-> 2], [n |-> 2, d |-> 1] }
FocalXs == {50, 300}
TouchXs == {-5, 120}
TouchYs == {30}

\* ------------------------------------------------------------ number model
RECURSIVE Gcd(_, _)
Gcd(a, b) == IF b = 0 THEN a ELSE Gcd(b, a % b)

Abs(x) == IF x < 0 THEN -x ELSE x

\* a number is the fraction n/d in lowest terms with d > 0; d = 0 is a non-finite
\* number: 1/0 is +Infinity, -1/0 is -Infinity and 0/0 is NaN
Rat(num, den) ==
  LET s == IF den < 0 THEN -1 ELSE 1
      g == Gcd(Abs(num), Abs(den))
  IN  IF g = 0 THEN [n |-> 0, d |-> 0]
      ELSE [n |-> (s * num) \div g, d |-> (s * den) \div g]

Num(k) == [n |-> k, d |-> 1]
Zero == Num(0)

PosInfinity == [n |-> 1, d |-> 0]
NegInfinity == [n |-> -1, d |-> 0]
NaN == [n |-> 0, d |-> 0]
IsNaN(a) == a.n = 0 /\ a.d = 0

\* Infinity + Infinity is Infinity, Infinity - Infinity is NaN
AddNonFinite(a, b) ==
  IF IsNaN(a) \/ IsNaN(b) THEN NaN
  ELSE IF a.d # 0 THEN b
  ELSE IF b.d # 0 \/ a.n = b.n THEN a
  ELSE NaN

\* comparisons with NaN are false
LeNonFinite(a, b) ==
  /\ ~IsNaN(a) /\ ~IsNaN(b)
  /\ (a.d = 0 /\ a.n < 0) \/ (b.d = 0 /\ b.n > 0)

Add(a, b) ==
  IF a.d # 0 /\ b.d # 0 THEN Rat(a.n * b.d + b.n * a.d, a.d * b.d) ELSE AddNonFinite(a, b)
Sub(a, b) ==
  IF a.d # 0 /\ b.d # 0 THEN Rat(a.n * b.d - b.n * a.d, a.d * b.d)
  ELSE AddNonFinite(a, [n |-> -b.n, d |-> b.d])
Mul(a, b) == Rat(a.n * b.n, a.d * b.d)
Div(a, b) == IF b.n < 0 THEN Rat(-(a.n * b.d), -(a.d * b.n)) ELSE Rat(a.n * b.d, a.d * b.n)
Le(a, b) == IF a.d # 0 /\ b.d # 0 THEN a.n * b.d <= b.n * a.d ELSE LeNonFinite(a, b)
Lt(a, b) == IF a.d # 0 /\ b.d # 0 THEN a.n * b.d < b.n * a.d ELSE a # b /\ LeNonFinite(a, b)
MathMax(a, b) == IF IsNaN(a) THEN a ELSE IF IsNaN(b) THEN b ELSE IF Le(a, b) THEN b ELSE a
MathMin(a, b) == IF IsNaN(a) THEN a ELSE IF IsNaN(b) THEN b ELSE IF Le(a, b) THEN a ELSE b
MathAbs(a) == [n |-> Abs(a.n), d |-> a.d]
MathFloor(a) == a.n \div a.d
MathCeil(a) == -((-a.n) \div a.d)
\* Math.floor and Math.ceil as numbers: a non-finite argument is returned as it is
Floor(a) == IF a.d = 0 THEN a ELSE Num(MathFloor(a))
Ceil(a) == IF a.d = 0 THEN a ELSE Num(MathCeil(a))
IsFinite(a) == a.d # 0

EPSILON == Rat(1, 1000000)

\* --------------------------------------------------------- pure functions
clamp(value, min, max) ==
  IF ~IsFinite(value) THEN min ELSE MathMin(MathMax(value, min), max)

getMaxStartOffset(chartWidth, cw, count) ==
  IF Le(cw, Zero) THEN Zero
  ELSE LET visible == Div(chartWidth, cw)
           start == Sub(Num(count), visible)
       IN  MathMax(Zero, Mul(cw, start))

IntMin(a, b) == IF a <= b THEN a ELSE b
IntMax(a, b) == IF a >= b THEN a ELSE b

\* ------------------------------------------------------------------ state
VARIABLES
  candleCount,                \* candles.length (prop)
  initialVisibleCandleCount,  \* prop
  layoutSize,                 \* useState, line 159
  candleWidth,                \* useState, line 160
  startOffset,                \* useState, line 161
  tapPosition,                \* useState, line 162
  prevChartWidthRef,          \* useRef, line 165
  prevCandleWidthRef,         \* useRef, line 166
  prevStartOffsetRef,         \* useRef, line 167
  initialFocalXRef,           \* useRef, line 168
  candleWidthRef,             \* useRef, line 170
  startOffsetRef,             \* useRef, line 171
  onCandlePressCall,          \* arguments of the onCandlePress call made by the last handler, or Null
  pointers,                   \* number of pointer contacts on the view
  lastOp,                     \* history: the handler that ran last and its arguments
  panBegin,                   \* history: viewport at the last pan onBegin, Null before it
  pinchBegin,                 \* history: viewport at the last pinch onStart, Null before it
  steps,                      \* history: number of events delivered
  call,                       \* a call of a lib/charts/utils function: its name and arguments
  result                      \* what that call returned or threw, Null before it returns

vars == << candleCount, initialVisibleCandleCount, layoutSize, candleWidth, startOffset,
           tapPosition, prevChartWidthRef, prevCandleWidthRef, prevStartOffsetRef,
           initialFocalXRef, candleWidthRef, startOffsetRef, onCandlePressCall,
           pointers, lastOp, panBegin, pinchBegin, steps, call, result >>

\* the candles prop: candle k (0-based) carries timestamp 1000 + k
candles == [i \in 1..candleCount |-> [timestamp |-> 1000 + (i - 1), trends |-> Null]]

\* ------------------------------------------------- derived render values
ChartWidthOf(width) == Num(IntMax(width - PRICE_LABEL_WIDTH, 0))
chartWidth == ChartWidthOf(layoutSize.width)

viewport ==
  [candleWidth |-> candleWidth,
   startOffset |-> startOffset,
   visibleCount |-> IF Lt(Zero, chartWidth) /\ Lt(Zero, candleWidth)
                    THEN Div(chartWidth, candleWidth) ELSE Zero]

\* lines 435-440; value is a whole number or non-finite
clampIndex(value, length) ==
  IF IsNaN(value) \/ ~IsFinite(value) THEN 0
  ELSE IntMin(IntMax(0, value.n), IntMax(0, length - 1))

\* lines 442-446
clampEnd(candidate, startIndex, total) ==
  IntMin(total, IntMax(startIndex, IF IsFinite(candidate) THEN candidate.n ELSE startIndex))

\* indices are 0-based as in the source; Sequences are 1-based
\* lines 404-405
sliceStart(total, vp) ==
  clampIndex(Floor(Div(vp.startOffset, MathMax(MathAbs(vp.candleWidth), EPSILON))), total)

sliceEnd_floor(startIndex, total, vp) ==
  clampEnd(Floor(Add(Num(startIndex), MathMax(Zero, vp.visibleCount))), startIndex, total)

\* lines 406-408
sliceEnd(startIndex, total, vp) ==
  clampEnd(Ceil(Add(Num(startIndex), MathMax(Zero, vp.visibleCount))), startIndex, total)

slicedCandles_fromNext(cs, startIndex, endIndex) ==
  LET sliced == SubSeq(cs, startIndex + 2, endIndex)
  IN  IF endIndex < Len(cs) THEN Append(sliced, cs[endIndex + 1]) ELSE sliced

\* lines 410-413: candles.slice(startIndex, endIndex) and the overscan candle
slicedCandles(cs, startIndex, endIndex) ==
  LET sliced == SubSeq(cs, startIndex + 1, endIndex)
  IN  IF endIndex < Len(cs) THEN Append(sliced, cs[endIndex + 1]) ELSE sliced

boundaryTrends_trailingAtEnd(batch, startIndex, endIndex) ==
  LET total == Len(batch.candles)
      trailingIndex == endIndex
  IN  [leading |-> IF startIndex > 0 THEN batch.candles[startIndex].trends
                   ELSE batch.leadingTrends,
       trailing |-> IF trailingIndex < total THEN batch.candles[trailingIndex + 1].trends
                    ELSE batch.trailingTrends]

\* lines 415-423: the trend vectors next to the slice (undefined is Null)
boundaryTrends(batch, startIndex, endIndex) ==
  LET total == Len(batch.candles)
      trailingIndex == endIndex + 1
  IN  [leading |-> IF startIndex > 0 THEN batch.candles[startIndex].trends
                   ELSE batch.leadingTrends,
       trailing |-> IF trailingIndex < total THEN batch.candles[trailingIndex + 1].trends
                    ELSE batch.trailingTrends]

\* lines 410-432: the slice for a known index range
sliceAt(batch, startIndex, endIndex) ==
  [candles |-> slicedCandles(batch.candles, startIndex, endIndex),
   startIndex |-> startIndex,
   endIndex |-> endIndex,
   leadingTrends |-> boundaryTrends(batch, startIndex, endIndex).leading,
   trailingTrends |-> boundaryTrends(batch, startIndex, endIndex).trailing]

\* lines 404-432: the slice that starts at a known index
sliceFrom(batch, vp, startIndex) ==
  sliceAt(batch, startIndex, sliceEnd(startIndex, Len(batch.candles), vp))

sliceCandlesForViewport(batch, vp) ==
  IF Len(batch.candles) = 0
  THEN [candles |-> << >>, startIndex |-> 0, endIndex |-> 0,
        leadingTrends |-> Null, trailingTrends |-> Null]
  ELSE sliceFrom(batch, vp, sliceStart(Len(batch.candles), vp))

\* lines 229-240: the chart passes its candles without boundary fallbacks
viewportSlice ==
  IF candleCount = 0 \/ Le(chartWidth, Zero) \/ Le(candleWidth, Zero) THEN Null
  ELSE sliceCandlesForViewport([candles |-> candles, leadingTrends |-> Null,
                                trailingTrends |-> Null], viewport)

xShift_noFraction ==
  IF viewportSlice = Null \/ Le(candleWidth, Zero) THEN Zero
  ELSE Div(candleWidth, Num(2))

xShift ==
  IF viewportSlice = Null \/ Le(candleWidth, Zero) THEN Zero
  ELSE LET halfCandle == Div(candleWidth, Num(2))
           fraction == Sub(startOffset, Mul(Num(viewportSlice.startIndex), candleWidth))
       IN  Sub(halfCandle, fraction)

highlight_localIndex ==
  IF viewportSlice = Null \/ tapPosition = Null THEN Null
  ELSE IF ~Lt(Num(tapPosition.x), chartWidth) THEN Null
  ELSE
    LET index == MathFloor(Div(Add(Sub(Num(tapPosition.x), xShift), Div(candleWidth, Num(2))),
                               candleWidth))
    IN  IF index < 0 \/ index >= Len(viewportSlice.candles) THEN Null
        ELSE [index |-> index,
              globalIndex |-> index,
              candle |-> viewportSlice.candles[index + 1],
              localX |-> Mul(Num(index), candleWidth),
              screenX |-> Add(Mul(Num(index), candleWidth), xShift)]

highlight ==
  IF viewportSlice = Null \/ tapPosition = Null THEN Null
  ELSE IF ~Lt(Num(tapPosition.x), chartWidth) THEN Null
  ELSE
    LET index == MathFloor(Div(Add(Sub(Num(tapPosition.x), xShift), Div(candleWidth, Num(2))),
                               candleWidth))
    IN  IF index < 0 \/ index >= Len(viewportSlice.candles) THEN Null
        ELSE [index |-> index,
              globalIndex |-> viewportSlice.startIndex + index,
              candle |-> viewportSlice.candles[index + 1],
              localX |-> Mul(Num(index), candleWidth),
              screenX |-> Add(Mul(Num(index), candleWidth), xShift)]

\* -------------------------------------------------------------- operations
recalculateViewportForResize_fromStart(cWidth, count, initialVisible, prevWidthRef, cwRef, soRef) ==
  IF Le(cWidth, Zero) \/ count = 0
  THEN [prevChartWidthRef |-> prevWidthRef, candleWidth |-> candleWidth,
        startOffset |-> startOffset, candleWidthRef |-> cwRef, startOffsetRef |-> soRef]
  ELSE IF prevWidthRef # Null
  THEN LET minWidth == Div(cWidth, Num(count))
           maxWidth == Div(cWidth, Num(IntMax(IntMin(MIN_VISIBLE, count), 1)))
           nextCandleWidth == clamp(cwRef, minWidth, MathMax(minWidth, maxWidth))
           nextStartOffset == clamp(soRef, Zero,
                                    getMaxStartOffset(cWidth, nextCandleWidth, count))
       IN  [prevChartWidthRef |-> cWidth, candleWidth |-> nextCandleWidth,
            startOffset |-> nextStartOffset, candleWidthRef |-> nextCandleWidth,
            startOffsetRef |-> nextStartOffset]
  ELSE LET visibleCount == IntMin(count, initialVisible)
           nextCandleWidth == Div(cWidth, Num(IntMax(visibleCount, 1)))
           nextStartOffset == Zero
       IN  [prevChartWidthRef |-> cWidth, candleWidth |-> nextCandleWidth,
            startOffset |-> nextStartOffset, candleWidthRef |-> nextCandleWidth,
            startOffsetRef |-> nextStartOffset]

\* next values of (prevChartWidthRef, candleWidth/candleWidthRef, startOffset/startOffsetRef)
recalculateViewportForResize(cWidth, count, initialVisible, prevWidthRef, cwRef, soRef) ==
  IF Le(cWidth, Zero) \/ count = 0
  THEN [prevChartWidthRef |-> prevWidthRef, candleWidth |-> candleWidth,
        startOffset |-> startOffset, candleWidthRef |-> cwRef, startOffsetRef |-> soRef]
  ELSE IF prevWidthRef # Null
  THEN LET minWidth == Div(cWidth, Num(count))
           maxWidth == Div(cWidth, Num(IntMax(IntMin(MIN_VISIBLE, count), 1)))
           nextCandleWidth == clamp(cwRef, minWidth, MathMax(minWidth, maxWidth))
           nextStartOffset == clamp(soRef, Zero,
                                    getMaxStartOffset(cWidth, nextCandleWidth, count))
       IN  [prevChartWidthRef |-> cWidth, candleWidth |-> nextCandleWidth,
            startOffset |-> nextStartOffset, candleWidthRef |-> nextCandleWidth,
            startOffsetRef |-> nextStartOffset]
  ELSE LET visibleCount == IntMin(count, initialVisible)
           nextCandleWidth == Div(cWidth, Num(IntMax(visibleCount, 1)))
           nextStartOffset == MathMax(Zero, Mul(Num(count - visibleCount), nextCandleWidth))
       IN  [prevChartWidthRef |-> cWidth, candleWidth |-> nextCandleWidth,
            startOffset |-> nextStartOffset, candleWidthRef |-> nextCandleWidth,
            startOffsetRef |-> nextStartOffset]

clampStartOffset_lowerOnly(target, chartSpan, widthPerCandle) ==
  MathMax(target, Zero)

clampStartOffset(target, chartSpan, widthPerCandle) ==
  clamp(target, Zero, getMaxStartOffset(chartSpan, widthPerCandle, candleCount))

Tick == steps < MaxSteps /\ steps' = steps + 1 /\ UNCHANGED << call, result >>
Props == UNCHANGED << candleCount, initialVisibleCandleCount >>
ViewportNow == [candleWidth |-> candleWidth, startOffset |-> startOffset, chartWidth |-> chartWidth]

handleLayout(width, height) ==
  /\ Tick /\ Props
  /\ IF width = layoutSize.width /\ height = layoutSize.height
     THEN /\ UNCHANGED << layoutSize, candleWidth, startOffset, prevChartWidthRef,
                          candleWidthRef, startOffsetRef >>
          /\ lastOp' = [op |-> "layout", called |-> FALSE, first |-> FALSE,
                        hadHighlight |-> highlight # Null,
                        chartWidth |-> ChartWidthOf(width)]
     ELSE LET r == recalculateViewportForResize(ChartWidthOf(width), candleCount,
                     initialVisibleCandleCount, prevChartWidthRef, candleWidthRef, startOffsetRef)
          IN  /\ layoutSize' = [width |-> width, height |-> height]
              /\ prevChartWidthRef' = r.prevChartWidthRef
              /\ candleWidth' = r.candleWidth
              /\ startOffset' = r.startOffset
              /\ candleWidthRef' = r.candleWidthRef
              /\ startOffsetRef' = r.startOffsetRef
              /\ lastOp' = [op |-> "layout", called |-> TRUE,
                            first |-> (prevChartWidthRef = Null),
                            hadHighlight |-> highlight # Null,
                            chartWidth |-> ChartWidthOf(width)]
  /\ onCandlePressCall' = Null
  /\ UNCHANGED << tapPosition, prevCandleWidthRef, prevStartOffsetRef, initialFocalXRef,
                  pointers, panBegin, pinchBegin >>

clearTap_keep == UNCHANGED tapPosition

clearTap == tapPosition' = Null

handlePinchStart(focalX) ==
  /\ Tick /\ Props
  /\ prevCandleWidthRef' = candleWidthRef
  /\ prevStartOffsetRef' = startOffsetRef
  /\ initialFocalXRef' = clamp(focalX, Zero, chartWidth)
  /\ clearTap
  /\ pinchBegin' = ViewportNow
  /\ lastOp' = [op |-> "pinchStart", focalX |-> focalX, hadHighlight |-> highlight # Null]
  /\ onCandlePressCall' = Null
  /\ UNCHANGED << layoutSize, candleWidth, startOffset, prevChartWidthRef, candleWidthRef,
                  startOffsetRef, pointers, panBegin >>

\* lines 388-394: the candidate width, clamped into the zoom range
pinchNextCandleWidth(prevCandleWidth, scale, cWidth, count) ==
  LET minCandleWidth == Div(cWidth, Num(IntMax(count, 1)))
      maxCandleWidth == Div(cWidth, Num(IntMax(IntMin(MIN_VISIBLE, count), 1)))
  IN  clamp(Mul(prevCandleWidth, scale), minCandleWidth,
            MathMax(minCandleWidth, maxCandleWidth))

pinchTargetOffset_noZoomAdjustment(prevStartOffset, prevCandleWidth, nextCandleWidth, clampedFocal, initialFocalX, cWidth) ==
  LET clampedScale == Div(nextCandleWidth, prevCandleWidth)
      dx == Mul(Sub(clampedFocal, initialFocalX), Num(-1))
  IN  Add(Mul(prevStartOffset, clampedScale), dx)

\* lines 395-404: the offset before it is clamped
pinchTargetOffset(prevStartOffset, prevCandleWidth, nextCandleWidth, clampedFocal, initialFocalX, cWidth) ==
  LET clampedScale == Div(nextCandleWidth, prevCandleWidth)
      dx == Mul(Sub(clampedFocal, initialFocalX), Num(-1))
      prevCount == Div(cWidth, prevCandleWidth)
      nextCount == Div(cWidth, nextCandleWidth)
      zoomAdjustment == Mul(Sub(nextCount, prevCount), nextCandleWidth)
      focalFactor == Div(clampedFocal, cWidth)
  IN  Sub(Add(Mul(prevStartOffset, clampedScale), dx), Mul(zoomAdjustment, focalFactor))

handlePinchUpdate(scale, focalX) ==
  /\ pinchBegin # Null
  /\ Tick /\ Props
  /\ LET prevCandleWidth == IF prevCandleWidthRef # Zero THEN prevCandleWidthRef
                            ELSE candleWidthRef
     IN  IF Le(prevCandleWidth, Zero) \/ Le(chartWidth, Zero)
         THEN UNCHANGED << candleWidth, startOffset, candleWidthRef, startOffsetRef >>
         ELSE
           LET clampedFocal == clamp(focalX, Zero, chartWidth)
               nextCandleWidth == pinchNextCandleWidth(prevCandleWidth, scale, chartWidth,
                                                       candleCount)
               target == pinchTargetOffset(prevStartOffsetRef, prevCandleWidth,
                                           nextCandleWidth, clampedFocal, initialFocalXRef,
                                           chartWidth)
               nextStartOffset == clampStartOffset(target, chartWidth, nextCandleWidth)
           IN  /\ candleWidth' = nextCandleWidth
               /\ startOffset' = nextStartOffset
               /\ candleWidthRef' = nextCandleWidth
               /\ startOffsetRef' = nextStartOffset
  /\ lastOp' = [op |-> "pinchUpdate", scale |-> scale, focalX |-> focalX]
  /\ onCandlePressCall' = Null
  /\ UNCHANGED << layoutSize, tapPosition, prevChartWidthRef, prevCandleWidthRef,
                  prevStartOffsetRef, initialFocalXRef, pointers, panBegin, pinchBegin >>

handlePanStart ==
  /\ Tick /\ Props
  /\ prevStartOffsetRef' = startOffsetRef
  /\ clearTap
  /\ panBegin' = ViewportNow
  /\ lastOp' = [op |-> "panBegin", hadHighlight |-> highlight # Null]
  /\ onCandlePressCall' = Null
  /\ UNCHANGED << layoutSize, candleWidth, startOffset, prevChartWidthRef, prevCandleWidthRef,
                  initialFocalXRef, candleWidthRef, startOffsetRef, pointers, pinchBegin >>

handlePanUpdate(translationX) ==
  /\ panBegin # Null
  /\ Tick /\ Props
  /\ LET target == Add(prevStartOffsetRef, Mul(translationX, Num(-1)))
         nextStartOffset == clampStartOffset(target, chartWidth, candleWidthRef)
     IN  /\ startOffset' = nextStartOffset
         /\ startOffsetRef' = nextStartOffset
  /\ lastOp' = [op |-> "panUpdate", translationX |-> translationX]
  /\ onCandlePressCall' = Null
  /\ UNCHANGED << layoutSize, candleWidth, tapPosition, prevChartWidthRef, prevCandleWidthRef,
                  prevStartOffsetRef, initialFocalXRef, candleWidthRef, pointers, panBegin,
                  pinchBegin >>

handleTouch(locationX, locationY) ==
  tapPosition' = IF ~Lt(Num(locationX), chartWidth) THEN Null
                 ELSE [x |-> locationX, y |-> locationY]

gestureVars == << layoutSize, candleWidth, startOffset, prevChartWidthRef, prevCandleWidthRef,
                  prevStartOffsetRef, initialFocalXRef, candleWidthRef, startOffsetRef,
                  panBegin, pinchBegin >>

onTouchStart(x, y) ==
  /\ pointers < MaxPointers
  /\ Tick /\ Props
  /\ handleTouch(x, y)
  /\ pointers' = pointers + 1
  /\ lastOp' = [op |-> "touchStart", x |-> x, y |-> y]
  /\ onCandlePressCall' = Null
  /\ UNCHANGED gestureVars

onTouchMove(x, y) ==
  /\ pointers > 0
  /\ Tick /\ Props
  /\ handleTouch(x, y)
  /\ lastOp' = [op |-> "touchMove", x |-> x, y |-> y]
  /\ onCandlePressCall' = Null
  /\ UNCHANGED pointers
  /\ UNCHANGED gestureVars

handleTouchEnd_localIndex ==
  /\ onCandlePressCall' = IF highlight # Null
                          THEN [candle |-> highlight.candle, index |-> highlight.index]
                          ELSE Null
  /\ tapPosition' = Null

handleTouchEnd ==
  /\ onCandlePressCall' = IF highlight # Null
                          THEN [candle |-> highlight.candle, index |-> highlight.globalIndex]
                          ELSE Null
  /\ tapPosition' = Null

onTouchEnd ==
  /\ pointers > 0
  /\ Tick /\ Props
  /\ handleTouchEnd
  /\ pointers' = pointers - 1
  /\ lastOp' = [op |-> "touchEnd", highlighted |-> highlight # Null]
  /\ UNCHANGED gestureVars

onTouchCancel ==
  /\ pointers > 0
  /\ Tick /\ Props
  /\ handleTouchEnd
  /\ pointers' = pointers - 1
  /\ lastOp' = [op |-> "touchCancel", highlighted |-> highlight # Null]
  /\ UNCHANGED gestureVars

Init ==
  /\ candleCount \in CandleCounts
  /\ initialVisibleCandleCount \in InitialVisibleCounts
  /\ layoutSize = [width |-> 0, height |-> 0]
  /\ candleWidth = Zero
  /\ startOffset = Zero
  /\ tapPosition = Null
  /\ prevChartWidthRef = Null
  /\ prevCandleWidthRef = Zero
  /\ prevStartOffsetRef = Zero
  /\ initialFocalXRef = Zero
  /\ candleWidthRef = Zero
  /\ startOffsetRef = Zero
  /\ onCandlePressCall = Null
  /\ pointers = 0
  /\ lastOp = [op |-> "mount"]
  /\ panBegin = Null
  /\ pinchBegin = Null
  /\ steps = 0
  /\ call = Null
  /\ result = Null

Next ==
  \/ \E sz \in LayoutSizes : handleLayout(sz.width, sz.height)
  \/ \E f \in FocalXs : handlePinchStart(Num(f))
  \/ \E s \in Scales, f \in FocalXs : handlePinchUpdate(s, Num(f))
  \/ handlePanStart
  \/ \E t \in Translations : handlePanUpdate(Num(t))
  \/ \E x \in TouchXs, y \in TouchYs : onTouchStart(x, y)
  \/ \E x \in TouchXs, y \in TouchYs : onTouchMove(x, y)
  \/ onTouchEnd
  \/ onTouchCancel

Spec == Init /\ [][Next]_vars

\* ------------------------------------------------- lib/charts/utils calls
chartVars == << candleCount, initialVisibleCandleCount, layoutSize, candleWidth, startOffset,
                tapPosition, prevChartWidthRef, prevCandleWidthRef, prevStartOffsetRef,
                initialFocalXRef, candleWidthRef, startOffsetRef, onCandlePressCall,
                pointers, lastOp, panBegin, pinchBegin, steps >>

\* the outcome of a call: a returned value or a thrown Error
Return(value) == [threw |-> FALSE, value |-> value]
Throw(message) == [threw |-> TRUE, message |-> message]
PERIOD_ERROR == "period must be greater than zero"

AllNull(n) == [i \in 1..n |-> Null]
ClosesOf(cs) == [i \in 1..Len(cs) |-> cs[i].close]

RECURSIVE Sum(_)
Sum(values) == IF Len(values) = 0 THEN Zero ELSE Add(values[1], Sum(Tail(values)))

maStep_noDrop(movingAverage, period, current, previous) ==
  Div(Add(Mul(movingAverage, Num(period)), current), Num(period))

\* line 192
maStep(movingAverage, period, current, previous) ==
  Div(Sub(Add(Mul(movingAverage, Num(period)), current), previous), Num(period))

\* lines 188-197, i is the 0-based loop index
RECURSIVE maLoop(_, _, _, _, _)
maLoop(closes, period, i, movingAverage, acc) ==
  IF i >= Len(closes) THEN acc
  ELSE LET current == closes[i + 1]
           previous == closes[i - period + 1]
       IN  IF current # Null /\ previous # Null
           THEN LET next == maStep(movingAverage, period, current, previous)
                IN  maLoop(closes, period, i + 1, next, Append(acc, next))
           ELSE maLoop(closes, period, i + 1, movingAverage, Append(acc, Null))

maWarmup_onePeriod(period) == period

\* line 175: the shortest input that gets values
maWarmup(period) == period * 2

computeMovingAverage_emptyFirst(cs, period) ==
  IF Len(cs) = 0 THEN Return(<< >>)
  ELSE IF period <= 0 THEN Throw(PERIOD_ERROR)
  ELSE Return(AllNull(Len(cs)))

computeMovingAverage(cs, period) ==
  IF period <= 0 THEN Throw(PERIOD_ERROR)
  ELSE IF Len(cs) = 0 THEN Return(<< >>)
  ELSE IF Len(cs) < maWarmup(period) THEN Return(AllNull(Len(cs)))
  ELSE
    LET closes == ClosesOf(cs)
        seed == SelectSeq(SubSeq(closes, 1, period), LAMBDA value : value # Null)
    IN  IF Len(seed) = 0 THEN Return(AllNull(Len(cs)))
        ELSE Return(maLoop(closes, period, period, Div(Sum(seed), Num(Len(seed))),
                           AllNull(period)))

calculateRsiValue_ratio(avgGain, avgLoss) ==
  IF avgLoss = Zero THEN (IF avgGain = Zero THEN Num(50) ELSE Num(100))
  ELSE Mul(Num(100), Div(avgGain, avgLoss))

calculateRsiValue_flatIs100(avgGain, avgLoss) ==
  IF avgLoss = Zero THEN Num(100)
  ELSE LET rs == Div(avgGain, avgLoss)
       IN  Sub(Num(100), Div(Num(100), Add(Num(1), rs)))

calculateRsiValue(avgGain, avgLoss) ==
  IF avgLoss = Zero THEN (IF avgGain = Zero THEN Num(50) ELSE Num(100))
  ELSE LET rs == Div(avgGain, avgLoss)
       IN  Sub(Num(100), Div(Num(100), Add(Num(1), rs)))

rsiOnGap_emitNeutral(st, i) == [st EXCEPT !.result[i + 1] = Num(50)]

\* lines 221-223: continue
rsiOnGap(st, i) == st

\* lines 218-244, i is the 0-based loop index and st the loop's variables
RECURSIVE rsiLoop(_, _, _, _)
rsiLoop(closes, period, i, st) ==
  IF i >= Len(closes) THEN st.result
  ELSE
    LET current == closes[i + 1]
        previous == closes[i]
    IN  IF current = Null \/ previous = Null
        THEN rsiLoop(closes, period, i + 1, rsiOnGap(st, i))
        ELSE
          LET change == Sub(current, previous)
              gain == IF Lt(Zero, change) THEN change ELSE Zero
              loss == IF Lt(change, Zero) THEN Sub(Zero, change) ELSE Zero
          IN  IF st.avgGain = Null \/ st.avgLoss = Null
              THEN LET seedCount == st.seedCount + 1
                       seedGains == Add(st.seedGains, gain)
                       seedLosses == Add(st.seedLosses, loss)
                   IN  IF seedCount >= period
                       THEN LET avgGain == Div(seedGains, Num(period))
                                avgLoss == Div(seedLosses, Num(period))
                            IN  rsiLoop(closes, period, i + 1,
                                  [avgGain |-> avgGain, avgLoss |-> avgLoss,
                                   seedCount |-> seedCount, seedGains |-> seedGains,
                                   seedLosses |-> seedLosses,
                                   result |-> [st.result EXCEPT
                                                 ![i + 1] = calculateRsiValue(avgGain, avgLoss)]])
                       ELSE rsiLoop(closes, period, i + 1,
                              [st EXCEPT !.seedCount = seedCount, !.seedGains = seedGains,
                                         !.seedLosses = seedLosses])
              ELSE LET avgGain == Div(Add(Mul(st.avgGain, Num(period - 1)), gain), Num(period))
                       avgLoss == Div(Add(Mul(st.avgLoss, Num(period - 1)), loss), Num(period))
                   IN  rsiLoop(closes, period, i + 1,
                         [st EXCEPT !.avgGain = avgGain, !.avgLoss = avgLoss,
                                    !.result[i + 1] = calculateRsiValue(avgGain, avgLoss)])

computeRsi(cs, period) ==
  IF period <= 0 THEN Throw(PERIOD_ERROR)
  ELSE IF Len(cs) = 0 THEN Return(<< >>)
  ELSE Return(rsiLoop(ClosesOf(cs), period, 1,
                      [avgGain |-> Null, avgLoss |-> Null, seedCount |-> 0,
                       seedGains |-> Zero, seedLosses |-> Zero,
                       result |-> AllNull(Len(cs))]))

\* lines 314-332, i is the 0-based loop index and st the loop's variables
RECURSIVE emaLoop(_, _, _, _)
emaLoop(values, period, i, st) ==
  IF i >= Len(values) THEN st.result
  ELSE
    LET value == values[i + 1]
        multiplier == Rat(2, period + 1)
    IN  IF value = Null THEN emaLoop(values, period, i + 1, st)
        ELSE IF st.ema = Null
        THEN LET seedTotal == Add(st.seedTotal, value)
                 seedCount == st.seedCount + 1
             IN  IF seedCount >= period
                 THEN LET ema == Div(seedTotal, Num(period))
                      IN  emaLoop(values, period, i + 1,
                            [ema |-> ema, seedTotal |-> seedTotal, seedCount |-> seedCount,
                             result |-> [st.result EXCEPT ![i + 1] = ema]])
                 ELSE emaLoop(values, period, i + 1,
                        [st EXCEPT !.seedTotal = seedTotal, !.seedCount = seedCount])
        ELSE LET ema == Add(Mul(Sub(value, st.ema), multiplier), st.ema)
             IN  emaLoop(values, period, i + 1,
                   [st EXCEPT !.ema = ema, !.result[i + 1] = ema])

computeEma(values, period) ==
  IF period <= 0 THEN Throw(PERIOD_ERROR)
  ELSE IF Len(values) = 0 THEN Return(<< >>)
  ELSE Return(emaLoop(values, period, 0,
                      [ema |-> Null, seedTotal |-> Zero, seedCount |-> 0,
                       result |-> AllNull(Len(values))]))

macdHistogram_missingSignalIsZero(macd, signal) ==
  [index \in 1..Len(macd) |->
     IF macd[index] = Null THEN Null
     ELSE IF signal[index] = Null THEN macd[index]
     ELSE Sub(macd[index], signal[index])]

\* lines 281-287
macdHistogram(macd, signal) ==
  [index \in 1..Len(macd) |->
     IF macd[index] = Null \/ signal[index] = Null THEN Null
     ELSE Sub(macd[index], signal[index])]

\* the three periods are positive where computeEma is called, so it returns
computeMacd(cs, fastPeriod, slowPeriod, signalPeriod) ==
  IF fastPeriod <= 0 \/ slowPeriod <= 0 \/ signalPeriod <= 0 THEN Throw(PERIOD_ERROR)
  ELSE IF Len(cs) = 0 THEN Return([macd |-> << >>, signal |-> << >>, histogram |-> << >>])
  ELSE
    LET closes == ClosesOf(cs)
        fastEma == computeEma(closes, fastPeriod).value
        slowEma == computeEma(closes, slowPeriod).value
        macd == [index \in 1..Len(closes) |->
                   IF fastEma[index] = Null \/ slowEma[index] = Null THEN Null
                   ELSE Sub(fastEma[index], slowEma[index])]
        signal == computeEma(macd, signalPeriod).value
    IN  Return([macd |-> macd, signal |-> signal, histogram |-> macdHistogram(macd, signal)])

\* lines 346-355: the first present of high, max(open, close), open, close
highValueOf(candle) ==
  IF candle.high # Null THEN candle.high
  ELSE IF candle.open # Null /\ candle.close # Null THEN MathMax(candle.open, candle.close)
  ELSE IF candle.open # Null THEN candle.open
  ELSE candle.close

lowValueOf(candle) ==
  IF candle.low # Null THEN candle.low
  ELSE IF candle.open # Null /\ candle.close # Null THEN MathMin(candle.open, candle.close)
  ELSE IF candle.open # Null THEN candle.open
  ELSE candle.close

\* Math.max(...values) and Math.min(...values) of a non-empty list
RECURSIVE MaxOf(_)
MaxOf(values) ==
  IF Len(values) = 1 THEN values[1] ELSE MathMax(values[1], MaxOf(Tail(values)))

RECURSIVE MinOf(_)
MinOf(values) ==
  IF Len(values) = 1 THEN values[1] ELSE MathMin(values[1], MinOf(Tail(values)))

Present(values) == SelectSeq(values, LAMBDA value : value # Null)

extractPriceExtremes_zeroPlaceholder(cs) ==
  [maxPrice |-> Zero, minPrice |-> Zero]

extractPriceExtremes(cs) ==
  IF Len(cs) = 0 THEN [maxPrice |-> Num(1), minPrice |-> Zero]
  ELSE
    LET highs == Present([i \in 1..Len(cs) |-> highValueOf(cs[i])])
        lows == Present([i \in 1..Len(cs) |-> lowValueOf(cs[i])])
    IN  IF Len(highs) = 0 \/ Len(lows) = 0 THEN [maxPrice |-> Num(1), minPrice |-> Zero]
        ELSE [maxPrice |-> MaxOf(highs), minPrice |-> MinOf(lows)]

extractVolumeExtremes(cs) ==
  IF Len(cs) = 0 THEN [maxVolume |-> Zero, minVolume |-> Zero]
  ELSE
    LET volumes == Present([i \in 1..Len(cs) |-> cs[i].volume])
    IN  IF Len(volumes) = 0 THEN [maxVolume |-> Zero, minVolume |-> Zero]
        ELSE [maxVolume |-> MaxOf(volumes), minVolume |-> MinOf(volumes)]

\* ---------------------------------------------------- inputs of the calls
MaxLen == 4
MaxCandles == 2
GapLen == 6

SliceCandleCounts == {0, 1, 3, 10}
SliceCandleWidths == { Rat(1, 2000000), Num(30), Num(50) }
SliceStartOffsets == { Zero, Rat(1, 400000), Num(50), Num(70), Num(500) }
SliceVisibleCounts == { Num(-1), Zero, Num(1), Rat(5, 2), Num(5), Num(10) }
ClosePrices == { Null, Num(-1), Num(2), Num(4) }
Periods == {-1, 0, 1, 2, 3}
MacdPeriods == { << 1, 2, 1 >>, << 1, 2, 2 >>, << 2, 1, 1 >>, << 2, 3, 2 >>,
                 << 0, 1, 1 >>, << 1, 0, 1 >>, << 1, 1, 0 >> }

\* a batch of n candles: candle k (0-based) carries the trend vector << 100 + k >>
BatchOf(n) ==
  [candles |-> [i \in 1..n |-> [timestamp |-> 1000 + (i - 1),
                                trends |-> << Num(100 + (i - 1)) >>]],
   leadingTrends |-> << Num(-1) >>,
   trailingTrends |-> << Num(-2) >>]

CloseCandles == UNION { [1..k -> [close : ClosePrices]] : k \in 0..MaxLen }
\* longer sequences over fewer prices, for gaps between complete windows
GapPrices == { Null, Num(2), Num(4) }
LongCloseCandles == UNION { [1..k -> [close : GapPrices]] : k \in (MaxLen + 1)..GapLen }

Prices == { Null, Num(1), Num(3) }
\* the closes lie between the two prices, so that a candle closes above or below its open
MidPrices == { Null, Num(2) }
Volumes == { Null, Zero, Num(5) }
\* a candle's present prices satisfy low <= open, close <= high
PriceCandles ==
  { c \in [high : Prices, low : Prices, open : Prices, close : MidPrices] :
      /\ \A lo \in {c.low} \ {Null} : \A v \in {c.open, c.close, c.high} \ {Null} : Le(lo, v)
      /\ \A hi \in {c.high} \ {Null} : \A v \in {c.open, c.close} \ {Null} : Le(v, hi) }
PriceExtremesCalls ==
  { [fn |-> "extractPriceExtremes", candles |-> cs] :
    cs \in UNION { [1..k -> PriceCandles] : k \in 0..MaxCandles } }
VolumeExtremesCalls ==
  { [fn |-> "extractVolumeExtremes", candles |-> cs] :
    cs \in UNION { [1..k -> [volume : Volumes]] : k \in 0..MaxCandles } }

SliceCalls ==
  { [fn |-> "sliceCandlesForViewport", batch |-> BatchOf(n),
     viewport |-> [candleWidth |-> cw, startOffset |-> so, visibleCount |-> vc]] :
    n \in SliceCandleCounts, cw \in SliceCandleWidths, so \in SliceStartOffsets,
    vc \in SliceVisibleCounts }
MovingAverageCalls ==
  { [fn |-> "computeMovingAverage", candles |-> cs, period |-> p] :
    cs \in CloseCandles \cup LongCloseCandles, p \in Periods }
RsiCalls ==
  { [fn |-> "computeRsi", candles |-> cs, period |-> p] :
    cs \in CloseCandles \cup LongCloseCandles, p \in Periods }
MacdCalls ==
  { [fn |-> "computeMacd", candles |-> cs, fastPeriod |-> ps[1], slowPeriod |-> ps[2],
     signalPeriod |-> ps[3]] : cs \in CloseCandles, ps \in MacdPeriods }

sliceCandlesForViewportCall ==
  /\ call.fn = "sliceCandlesForViewport" /\ result = Null
  /\ result' = Return(sliceCandlesForViewport(call.batch, call.viewport))
  /\ UNCHANGED << call, chartVars >>

computeMovingAverageCall ==
  /\ call.fn = "computeMovingAverage" /\ result = Null
  /\ result' = computeMovingAverage(call.candles, call.period)
  /\ UNCHANGED << call, chartVars >>

computeRsiCall ==
  /\ call.fn = "computeRsi" /\ result = Null
  /\ result' = computeRsi(call.candles, call.period)
  /\ UNCHANGED << call, chartVars >>

computeMacdCall ==
  /\ call.fn = "computeMacd" /\ result = Null
  /\ result' = computeMacd(call.candles, call.fastPeriod, call.slowPeriod, call.signalPeriod)
  /\ UNCHANGED << call, chartVars >>

extractPriceExtremesCall ==
  /\ call.fn = "extractPriceExtremes" /\ result = Null
  /\ result' = Return(extractPriceExtremes(call.candles))
  /\ UNCHANGED << call, chartVars >>

extractVolumeExtremesCall ==
  /\ call.fn = "extractVolumeExtremes" /\ result = Null
  /\ result' = Return(extractVolumeExtremes(call.candles))
  /\ UNCHANGED << call, chartVars >>

LibInit ==
  /\ call \in SliceCalls \cup MovingAverageCalls \cup RsiCalls \cup MacdCalls
             \cup PriceExtremesCalls \cup VolumeExtremesCalls
  /\ result = Null
  /\ candleCount = 3
  /\ initialVisibleCandleCount = 2
  /\ layoutSize = [width |-> 0, height |-> 0]
  /\ candleWidth = Zero
  /\ startOffset = Zero
  /\ tapPosition = Null
  /\ prevChartWidthRef = Null
  /\ prevCandleWidthRef = Zero
  /\ prevStartOffsetRef = Zero
  /\ initialFocalXRef = Zero
  /\ candleWidthRef = Zero
  /\ startOffsetRef = Zero
  /\ onCandlePressCall = Null
  /\ pointers = 0
  /\ lastOp = [op |-> "mount"]
  /\ panBegin = Null
  /\ pinchBegin = Null
  /\ steps = 0

LibNext ==
  \/ sliceCandlesForViewportCall
  \/ computeMovingAverageCall
  \/ computeRsiCall
  \/ computeMacdCall
  \/ extractPriceExtremesCall
  \/ extractVolumeExtremesCall

LibSpec == LibInit /\ [][LibNext]_vars

\* ------------------------------------------------------------------ claims
initialised == prevChartWidthRef # Null
MaxOffsetBound(w, cw, count) == MathMax(Zero, Sub(Mul(cw, Num(count)), w))
WidthInZoomRange(w, cw, count) ==
  /\ Le(Div(w, Num(count)), cw)
  /\ Le(cw, Div(w, Num(IntMin(MIN_VISIBLE, count))))

C2_WidthAlwaysInZoomRange ==
  (initialised /\ Lt(Zero, chartWidth)) =>
    WidthInZoomRange(chartWidth, candleWidth, candleCount)

\* C3: two consecutive Resize calls with identical arguments (drawable width > 0)
\* leave candleWidth and startOffset after the second call as after the first.
C3_ResizeIdempotent ==
  [][ ( /\ lastOp.op = "layout" /\ lastOp.called
        /\ lastOp'.op = "layout" /\ lastOp'.called
        /\ lastOp'.chartWidth = lastOp.chartWidth
        /\ Lt(Zero, lastOp.chartWidth) )
      => (candleWidth' = candleWidth /\ startOffset' = startOffset) ]_vars

\* C4: every pan update of a pan that began on an initialised chart yields
\* clamp(startOffset at pan begin - translation), whatever pinch events were
\* interleaved since the pan began.
C4_PanReadsOwnSnapshot ==
  (lastOp.op = "panUpdate" /\ Lt(Zero, panBegin.candleWidth)) =>
    startOffset = clamp(Sub(panBegin.startOffset, lastOp.translationX), Zero,
                        MaxOffsetBound(chartWidth, candleWidth, candleCount))

\* C5: a pan or pinch update that follows a resize to a new positive drawable
\* width W' since its gesture started leaves candleWidth within
\* [W'/n, W'/min(14, n)] and startOffset within [0, maxStartOffset(W', ...)].
C5_UpdateAfterResizeUsesCurrentWidth ==
  ( /\ Lt(Zero, chartWidth)
    /\ \/ lastOp.op = "panUpdate" /\ panBegin.chartWidth # chartWidth
       \/ lastOp.op = "pinchUpdate" /\ pinchBegin.chartWidth # chartWidth )
  => /\ WidthInZoomRange(chartWidth, candleWidth, candleCount)
     /\ Le(Zero, startOffset)
     /\ Le(startOffset, MaxOffsetBound(chartWidth, candleWidth, candleCount))

\* C6: a pan onBegin or pinch onStart leaves no tap position (no Highlight),
\* snapshots startOffset (pinch: also candleWidth and the focal x clamped into
\* [0, drawableWidth]) and changes neither candleWidth nor startOffset.
C6_GestureStartSnapshotsAndClears ==
  [][ /\ lastOp'.op = "panBegin" =>
           /\ tapPosition' = Null
           /\ prevStartOffsetRef' = startOffset
           /\ candleWidth' = candleWidth /\ startOffset' = startOffset
      /\ lastOp'.op = "pinchStart" =>
           /\ tapPosition' = Null
           /\ prevStartOffsetRef' = startOffset
           /\ prevCandleWidthRef' = candleWidth
           /\ initialFocalXRef' = IF Lt(lastOp'.focalX, Zero) THEN Zero
                                  ELSE IF Lt(chartWidth, lastOp'.focalX) THEN chartWidth
                                  ELSE lastOp'.focalX
           /\ candleWidth' = candleWidth /\ startOffset' = startOffset ]_vars

\* a pinch start arrived while a candle was highlighted, its focal x beyond the drawable width
C6_Witness ==
  /\ lastOp.op = "pinchStart" /\ lastOp.hadHighlight
  /\ tapPosition = Null
  /\ Lt(chartWidth, lastOp.focalX) /\ initialFocalXRef = chartWidth
  /\ Lt(Zero, startOffset) /\ prevStartOffsetRef = startOffset

\* C7: after a Resize that arrives while a Highlight is present, no candle is highlighted.
C7_ResizeClearsHighlight ==
  (lastOp.op = "layout" /\ lastOp.called /\ lastOp.hadHighlight) => highlight = Null

\* C8: pointer-up / pointer-cancel clears the tap position and calls onCandlePress
\* exactly when a Highlight existed, with candles[globalIndex] and globalIndex; no
\* other event calls it; no Highlight exists while no pointer is in contact.
C8_ReleaseNotifiesAndClears ==
  /\ [](pointers = 0 => (tapPosition = Null /\ highlight = Null))
  /\ [][ IF lastOp'.op \in {"touchEnd", "touchCancel"}
         THEN /\ tapPosition' = Null
              /\ IF highlight # Null
                 THEN onCandlePressCall' = [candle |-> candles[highlight.globalIndex + 1],
                                            index |-> highlight.globalIndex]
                 ELSE onCandlePressCall' = Null
         ELSE onCandlePressCall' = Null ]_vars

\* a release notified a candle that is not the first of the slice
C8_Witness ==
  /\ lastOp.op \in {"touchEnd", "touchCancel"} /\ lastOp.highlighted
  /\ onCandlePressCall # Null
  /\ onCandlePressCall.index > viewportSlice.startIndex
  /\ viewportSlice.startIndex > 0
  /\ tapPosition = Null

\* C9: after a pointer-down or pointer-move at x on a chart with a slice, the
\* Highlight is present exactly when x < drawableWidth and the local index
\* floor((x - xShift + candleWidth/2) / candleWidth), with xShift = candleWidth/2
\* - (startOffset - startIndex * candleWidth), is within the slice; its global
\* index is then floor((startOffset + x) / candleWidth).
C9_TouchMapsToCandle ==
  (lastOp.op \in {"touchStart", "touchMove"} /\ viewportSlice # Null) =>
    LET x == Num(lastOp.x)
        shift == Sub(Div(candleWidth, Num(2)),
                     Sub(startOffset, Mul(Num(viewportSlice.startIndex), candleWidth)))
        local == MathFloor(Div(Add(Sub(x, shift), Div(candleWidth, Num(2))), candleWidth))
        global == MathFloor(Div(Add(startOffset, x), candleWidth))
    IN  IF Lt(x, chartWidth) /\ local >= 0 /\ local < Len(viewportSlice.candles)
        THEN /\ highlight # Null
             /\ highlight.index = local
             /\ highlight.globalIndex = global
             /\ highlight.candle = candles[global + 1]
        ELSE highlight = Null

\* a touch highlighted a candle while the window starts inside a candle
C9_Witness ==
  /\ lastOp.op \in {"touchStart", "touchMove"}
  /\ highlight # Null
  /\ highlight.index > 0
  /\ viewportSlice.startIndex > 0
  /\ startOffset # Mul(Num(viewportSlice.startIndex), candleWidth)

\* the candle position under the horizontal midpoint of the drawable area
MidPosition(so, cw) == Div(Add(so, Div(chartWidth, Num(2))), cw)
AbsDiff(a, b) == MathAbs(Sub(a, b))

\* a pinch update with the focal point at the midpoint at start and at update,
\* reading the snapshot its pinch start took at the current drawable width from a
\* candleWidth within the zoom range
MidpointPinchUpdate ==
  /\ lastOp.op = "pinchUpdate"
  /\ initialised /\ Lt(Zero, chartWidth)
  /\ pinchBegin.chartWidth = chartWidth
  /\ WidthInZoomRange(chartWidth, pinchBegin.candleWidth, candleCount)
  /\ prevCandleWidthRef = pinchBegin.candleWidth
  /\ prevStartOffsetRef = pinchBegin.startOffset
  /\ lastOp.focalX = Div(chartWidth, Num(2))
  /\ initialFocalXRef = Div(chartWidth, Num(2))

\* C10 as stated: after every such update the position under the midpoint differs
\* from the position at pinch start by at most one candle.
C10_MidpointAnchoredAlways ==
  MidpointPinchUpdate =>
    Le(AbsDiff(MidPosition(startOffset, candleWidth),
               MidPosition(prevStartOffsetRef, prevCandleWidthRef)), Num(1))

\* C10 amended: whenever the offset the update computes needs no clamping (it lies
\* within [0, maxStartOffset]), the position under the midpoint is the position at
\* pinch start, hence within one candle of it.
C10_MidpointAnchoredWhenUnclamped ==
  MidpointPinchUpdate =>
    LET target == Sub(Mul(prevStartOffsetRef, Div(candleWidth, prevCandleWidthRef)),
                      Mul(Sub(Div(chartWidth, candleWidth),
                              Div(chartWidth, prevCandleWidthRef)),
                          Div(candleWidth, Num(2))))
    IN  (Le(Zero, target) /\ Le(target, MaxOffsetBound(chartWidth, candleWidth, candleCount)))
        => MidPosition(startOffset, candleWidth)
             = MidPosition(prevStartOffsetRef, prevCandleWidthRef)

\* a midpoint pinch changed candleWidth without the offset being clamped
C10_Witness ==
  /\ MidpointPinchUpdate
  /\ candleWidth # prevCandleWidthRef
  /\ Lt(Zero, startOffset)
  /\ Lt(startOffset, MaxOffsetBound(chartWidth, candleWidth, candleCount))

\* ------------------------------------------------- claims on the slicer
Returned(fn) == call.fn = fn /\ result # Null /\ ~result.threw
ClampInt(value, lo, hi) == IF value < lo THEN lo ELSE IF value > hi THEN hi ELSE value

\* the slice the algorithm of the claim gives for a divisor `width`
ExpectedSlice(cs, vp, width) ==
  LET n == Len(cs)
      startIndex == ClampInt(MathFloor(Div(vp.startOffset, width)), 0, n - 1)
      endIndex == ClampInt(MathCeil(Add(Num(startIndex), vp.visibleCount)), startIndex, n)
  IN  [startIndex |-> startIndex,
       endIndex |-> endIndex,
       candles |-> [k \in 1..(endIndex - startIndex + (IF endIndex < n THEN 1 ELSE 0)) |->
                      cs[startIndex + k]]]

SliceMatches(expected) ==
  /\ result.value.startIndex = expected.startIndex
  /\ result.value.endIndex = expected.endIndex
  /\ result.value.candles = expected.candles

SliceOfNothing ==
  (Returned("sliceCandlesForViewport") /\ Len(call.batch.candles) = 0) =>
    /\ result.value.candles = << >>
    /\ result.value.startIndex = 0
    /\ result.value.endIndex = 0

\* C11 as stated: for n >= 1 the slice has startIndex = clamp(floor(startOffset /
\* candleWidth), 0, n-1), endIndex = clamp(ceil(startIndex + visibleCount),
\* startIndex, n) and the candles startIndex..endIndex-1 plus candle endIndex
\* exactly when endIndex < n, for every candleWidth > 0; for n = 0 it is empty
\* with both indices 0.
C11_SliceByCandleWidth ==
  /\ SliceOfNothing
  /\ (Returned("sliceCandlesForViewport") /\ Len(call.batch.candles) >= 1) =>
       SliceMatches(ExpectedSlice(call.batch.candles, call.viewport,
                                  call.viewport.candleWidth))

\* C11 amended: the same with startOffset divided by max(|candleWidth|, 0.000001),
\* the width the slicer divides by.
C11_SliceByGuardedWidth ==
  /\ SliceOfNothing
  /\ (Returned("sliceCandlesForViewport") /\ Len(call.batch.candles) >= 1) =>
       SliceMatches(ExpectedSlice(call.batch.candles, call.viewport,
                                  MathMax(MathAbs(call.viewport.candleWidth),
                                          Rat(1, 1000000))))

\* the scenario of the claim: 10 candles, candleWidth 50, startOffset 0, 5 visible
C11_Witness ==
  /\ Returned("sliceCandlesForViewport")
  /\ Len(call.batch.candles) = 10
  /\ call.viewport = [candleWidth |-> Num(50), startOffset |-> Zero, visibleCount |-> Num(5)]
  /\ result.value.startIndex = 0
  /\ result.value.endIndex = 5
  /\ Len(result.value.candles) = 6

\* C12: when the derived range of a slice of n >= 1 candles is startIndex = 0 and
\* endIndex = n, the slice's candle list is the full sequence, in order, and no
\* overscan candle is added.
C12_SliceRoundTrip ==
  (/\ Returned("sliceCandlesForViewport")
   /\ Len(call.batch.candles) >= 1
   /\ result.value.startIndex = 0
   /\ result.value.endIndex = Len(call.batch.candles)) =>
    /\ Len(result.value.candles) = Len(call.batch.candles)
    /\ \A k \in 1..Len(call.batch.candles) : result.value.candles[k] = call.batch.candles[k]

C12_Witness ==
  /\ Returned("sliceCandlesForViewport")
  /\ Len(call.batch.candles) = 3
  /\ result.value.startIndex = 0
  /\ result.value.endIndex = 3
  /\ Len(result.value.candles) = 3

\* 0-based position in the batch of the last candle of the returned slice
LastSlicedIndex == result.value.candles[Len(result.value.candles)].timestamp - 1000

\* C13: the leading boundary trends are those of candle startIndex - 1 when
\* startIndex > 0 and else the leading fallback; the trailing boundary trends are
\* those of candle endIndex + 1 when endIndex + 1 < n and else the trailing
\* fallback; whenever a candle follows the last candle of the returned slice, the
\* trailing trends are that candle's.
C13_BoundaryTrends ==
  (Returned("sliceCandlesForViewport") /\ Len(call.batch.candles) >= 1) =>
    LET cs == call.batch.candles
        n == Len(cs)
        r == result.value
    IN  /\ r.leadingTrends = IF r.startIndex > 0 THEN cs[r.startIndex].trends
                              ELSE call.batch.leadingTrends
        /\ r.trailingTrends = IF r.endIndex + 1 < n THEN cs[r.endIndex + 2].trends
                               ELSE call.batch.trailingTrends
        /\ (LastSlicedIndex + 1 < n) => r.trailingTrends = cs[LastSlicedIndex + 2].trends

C13_Witness ==
  /\ Returned("sliceCandlesForViewport")
  /\ Len(call.batch.candles) = 10
  /\ result.value.startIndex = 1
  /\ result.value.endIndex = 4
  /\ result.value.leadingTrends = << Num(100) >>
  /\ result.value.trailingTrends = << Num(105) >>

\* ------------------------------------------------- claims on the first layout
\* C14: the first layout with a positive drawable width W and n >= 1 candles sets
\* candleWidth = W / visible and startOffset = max(0, (n - visible) * candleWidth)
\* with visible = min(n, initialVisibleCandleCount); that offset equals
\* max(0, candleWidth * (n - W / candleWidth)) and the last candle is in the slice.
C14_FirstResizeAnchorsToLatest ==
  (lastOp.op = "layout" /\ lastOp.called /\ lastOp.first /\ Lt(Zero, chartWidth)) =>
    LET visible == IntMin(candleCount, initialVisibleCandleCount)
        n == Num(candleCount)
    IN  /\ candleWidth = Div(chartWidth, Num(visible))
        /\ startOffset = MathMax(Zero, Mul(Num(candleCount - visible), candleWidth))
        /\ startOffset = MathMax(Zero, Mul(candleWidth, Sub(n, Div(chartWidth, candleWidth))))
        /\ viewportSlice # Null
        /\ viewportSlice.candles[Len(viewportSlice.candles)] = candles[candleCount]

\* 28 candles of which 20 are shown first: the window starts 8 candles in
C14_Witness ==
  /\ lastOp.op = "layout" /\ lastOp.called /\ lastOp.first /\ Lt(Zero, chartWidth)
  /\ candleCount = 28 /\ initialVisibleCandleCount = 20
  /\ startOffset = Mul(Num(8), candleWidth)
  /\ viewportSlice.startIndex = 8
  /\ viewportSlice.endIndex = 28

\* ------------------------------------------------- claims on the indicators
Closes == ClosesOf(call.candles)
NoGaps == \A k \in 1..Len(Closes) : Closes[k] # Null
\* arithmetic mean of the closes at the 0-based indices from..to
Mean(from, to) == Div(Sum(SubSeq(Closes, from + 1, to + 1)), Num(to - from + 1))

\* C15: for a period p > 0, computeMovingAverage returns as many entries as there
\* are candles; all of them are "no value" when there are fewer than 2p candles,
\* and the first p are "no value" when there are 2p or more.
C15_MovingAverageWarmup ==
  (call.fn = "computeMovingAverage" /\ result # Null /\ call.period > 0) =>
    LET n == Len(call.candles)
        p == call.period
    IN  /\ ~result.threw
        /\ Len(result.value) = n
        /\ (n < 2 * p) => \A k \in 1..n : result.value[k] = Null
        /\ (n >= 2 * p) => \A k \in 1..p : result.value[k] = Null

\* three candles with closes, period 2: long enough for one window, no value emitted
C15_Witness ==
  /\ Returned("computeMovingAverage")
  /\ call.period = 2 /\ Len(call.candles) = 3 /\ NoGaps
  /\ result.value = << Null, Null, Null >>

BadPeriodCall ==
  \/ call.fn \in {"computeMovingAverage", "computeRsi"} /\ call.period <= 0
  \/ /\ call.fn = "computeMacd"
     /\ (call.fastPeriod <= 0 \/ call.slowPeriod <= 0 \/ call.signalPeriod <= 0)

\* C16: computeMovingAverage and computeRsi with period <= 0, and computeMacd with
\* a fast, slow or signal period <= 0, throw the argument error for every input,
\* the empty candle sequence included; nothing is returned.
C16_NonPositivePeriodThrows ==
  (BadPeriodCall /\ result # Null) =>
    result.threw /\ result.message = "period must be greater than zero"

\* period 0 on an empty candle sequence
C16_Witness ==
  /\ call.fn = "computeMovingAverage" /\ call.period = 0 /\ Len(call.candles) = 0
  /\ result # Null /\ result.threw

\* C17: with no missing closes and at least 2p candles, every value
\* computeMovingAverage(p) emits at an index i >= p is the arithmetic mean of
\* closes[i-p+1..i]; a constant sequence yields that constant.
C17_MovingAverageIsWindowMean ==
  (/\ Returned("computeMovingAverage") /\ call.period > 0
   /\ Len(call.candles) >= 2 * call.period /\ NoGaps) =>
    \A i \in call.period..(Len(call.candles) - 1) :
      result.value[i + 1] # Null =>
        /\ result.value[i + 1] = Mean(i - call.period + 1, i)
        /\ (\A k \in 1..Len(Closes) : Closes[k] = Closes[1]) => result.value[i + 1] = Closes[1]

\* four closes -1, 2, 4, 2 with period 2: both values are the mean of 2 and 4
C17_Witness ==
  /\ Returned("computeMovingAverage")
  /\ call.period = 2
  /\ Closes = << Num(-1), Num(2), Num(4), Num(2) >>
  /\ result.value = << Null, Null, Num(3), Num(3) >>

\* C18: every value computeRsi emits lies in [0, 100], for every period > 0 and
\* every sequence of closes, negative closes and gaps included.
C18_RsiBounded ==
  Returned("computeRsi") =>
    \A k \in 1..Len(result.value) :
      result.value[k] # Null => Le(Zero, result.value[k]) /\ Le(result.value[k], Num(100))

\* a sequence with a gap and a negative close whose RSI is strictly inside the range
C18_Witness ==
  /\ Returned("computeRsi")
  /\ ~NoGaps
  /\ \E k \in 1..Len(Closes) : Closes[k] # Null /\ Lt(Closes[k], Zero)
  /\ \E k \in 1..Len(result.value) :
       /\ result.value[k] # Null
       /\ Lt(Zero, result.value[k]) /\ Lt(result.value[k], Num(100))

Increasing == \A k \in 2..Len(Closes) : Lt(Closes[k - 1], Closes[k])
Decreasing == \A k \in 2..Len(Closes) : Lt(Closes[k], Closes[k - 1])
Flat == \A k \in 2..Len(Closes) : Closes[k] = Closes[k - 1]
AllEmitted(value) == \A k \in 1..Len(result.value) : result.value[k] \in {Null, value}

\* C19: with no missing closes and at least period + 1 candles, computeRsi emits
\* its first value at index period; every emitted value is 100 for strictly
\* increasing closes, 0 for strictly decreasing closes and 50 for flat closes.
C19_RsiMonotoneAndFlat ==
  (/\ Returned("computeRsi") /\ call.period > 0
   /\ Len(call.candles) >= call.period + 1 /\ NoGaps) =>
    /\ \A k \in 1..call.period : result.value[k] = Null
    /\ result.value[call.period + 1] # Null
    /\ Increasing => AllEmitted(Num(100))
    /\ Decreasing => AllEmitted(Zero)
    /\ Flat => AllEmitted(Num(50))

\* four equal closes with period 2: 50 from index 2 on
C19_Witness ==
  /\ Returned("computeRsi")
  /\ call.period = 2 /\ Len(call.candles) = 4 /\ NoGaps /\ Flat
  /\ result.value = << Null, Null, Num(50), Num(50) >>

\* C20: in every computeMacd result the three sequences have the input's length,
\* histogram[i] is macd[i] - signal[i] where both are defined and "no value"
\* elsewhere, and macd[i] is defined exactly where the fast and the slow EMA
\* both are.
C20_MacdHistogram ==
  Returned("computeMacd") =>
    LET n == Len(call.candles)
        r == result.value
        fast == computeEma(Closes, call.fastPeriod).value
        slow == computeEma(Closes, call.slowPeriod).value
    IN  /\ Len(r.macd) = n /\ Len(r.signal) = n /\ Len(r.histogram) = n
        /\ \A k \in 1..n :
             /\ (r.macd[k] # Null /\ r.signal[k] # Null) =>
                  r.histogram[k] = Sub(r.macd[k], r.signal[k])
             /\ (r.macd[k] = Null \/ r.signal[k] = Null) => r.histogram[k] = Null
             /\ (r.macd[k] # Null) <=> (fast[k] # Null /\ slow[k] # Null)

\* a result with a macd value that has no signal yet and a later non-zero histogram
C20_Witness ==
  /\ Returned("computeMacd")
  /\ \E k \in 1..Len(result.value.macd) :
       /\ result.value.macd[k] # Null
       /\ result.value.signal[k] = Null
       /\ result.value.histogram[k] = Null
  /\ \E k \in 1..Len(result.value.macd) :
       /\ result.value.histogram[k] # Null
       /\ result.value.histogram[k] # Zero

\* ------------------------------------------------- claims on the extents
Usable(candle) ==
  candle.high # Null \/ candle.low # Null \/ candle.open # Null \/ candle.close # Null

\* C21: extractPriceExtremes returns {max 1, min 0} for an empty list and for a
\* list in which no candle has a high, low, open or close; extractVolumeExtremes
\* returns {max 0, min 0} for an empty list and for a list without volumes;
\* neither throws.
C21_PlaceholderExtremes ==
  /\ (call.fn \in {"extractPriceExtremes", "extractVolumeExtremes"} /\ result # Null) =>
       ~result.threw
  /\ (/\ Returned("extractPriceExtremes")
      /\ \A k \in 1..Len(call.candles) : ~Usable(call.candles[k])) =>
       result.value = [maxPrice |-> Num(1), minPrice |-> Zero]
  /\ (/\ Returned("extractVolumeExtremes")
      /\ \A k \in 1..Len(call.candles) : call.candles[k].volume = Null) =>
       result.value = [maxVolume |-> Zero, minVolume |-> Zero]

\* two candles without any price
C21_Witness ==
  /\ Returned("extractPriceExtremes")
  /\ Len(call.candles) = 2
  /\ \A k \in 1..2 : ~Usable(call.candles[k])
  /\ result.value = [maxPrice |-> Num(1), minPrice |-> Zero]

\* C30 as stated: for every candle list whose candles each satisfy low <= open,
\* close <= high where present, extractPriceExtremes returns maxPrice >= minPrice
\* and extractVolumeExtremes returns maxVolume >= minVolume.
C30_ExtremesOrdered ==
  /\ Returned("extractPriceExtremes") => Le(result.value.minPrice, result.value.maxPrice)
  /\ Returned("extractVolumeExtremes") => Le(result.value.minVolume, result.value.maxVolume)

\* ------------------------------------------------- claims on gaps
WindowPresent(from, to) == \A k \in from..to : Closes[k + 1] # Null

\* C25 as stated: with at least 2p candles and gaps, computeMovingAverage(p) emits
\* "no value" at an index i >= p exactly when closes[i] or closes[i-p] is missing,
\* and every value emitted at an index whose window closes[i-p+1..i] is present
\* is the arithmetic mean of that window.
C25_GapsDoNotBiasAverage ==
  (/\ Returned("computeMovingAverage") /\ call.period > 0
   /\ Len(call.candles) >= 2 * call.period) =>
    \A i \in call.period..(Len(call.candles) - 1) :
      /\ (result.value[i + 1] = Null) <=>
           (Closes[i + 1] = Null \/ Closes[i - call.period + 1] = Null)
      /\ (result.value[i + 1] # Null /\ WindowPresent(i - call.period + 1, i)) =>
           result.value[i + 1] = Mean(i - call.period + 1, i)

\* the 0-based indices i >= 1 whose delta closes[i] - closes[i-1] has both endpoints
ValidDeltas ==
  SelectSeq([i \in 1..(Len(Closes) - 1) |-> i],
            LAMBDA i : Closes[i + 1] # Null /\ Closes[i] # Null)
GainAt(i) ==
  IF Lt(Closes[i], Closes[i + 1]) THEN Sub(Closes[i + 1], Closes[i]) ELSE Zero
LossAt(i) ==
  IF Lt(Closes[i + 1], Closes[i]) THEN Sub(Closes[i], Closes[i + 1]) ELSE Zero
\* the averages after the k-th valid delta, k >= period: the seed, then the smoothing
RECURSIVE AvgGainAfter(_)
AvgGainAfter(k) ==
  IF k = call.period
  THEN Div(Sum([j \in 1..k |-> GainAt(ValidDeltas[j])]), Num(call.period))
  ELSE Div(Add(Mul(AvgGainAfter(k - 1), Num(call.period - 1)), GainAt(ValidDeltas[k])),
           Num(call.period))
RECURSIVE AvgLossAfter(_)
AvgLossAfter(k) ==
  IF k = call.period
  THEN Div(Sum([j \in 1..k |-> LossAt(ValidDeltas[j])]), Num(call.period))
  ELSE Div(Add(Mul(AvgLossAfter(k - 1), Num(call.period - 1)), LossAt(ValidDeltas[k])),
           Num(call.period))

\* C26: computeRsi emits "no value" at an index whose delta has a missing
\* endpoint and such a delta changes nothing: the first value is at the period-th
\* valid delta, from the sums of the first period valid deltas divided by period,
\* and each later valid delta gives avg' = (avg * (period - 1) + x) / period from
\* the averages of the valid delta before it.
C26_RsiSkipsGaps ==
  (Returned("computeRsi") /\ call.period > 0 /\ Len(call.candles) > 0) =>
    /\ result.value[1] = Null
    /\ \A i \in 1..(Len(Closes) - 1) :
         (Closes[i + 1] = Null \/ Closes[i] = Null) => result.value[i + 1] = Null
    /\ \A k \in 1..Len(ValidDeltas) :
         result.value[ValidDeltas[k] + 1] =
           IF k < call.period THEN Null
           ELSE calculateRsiValue(AvgGainAfter(k), AvgLossAfter(k))

\* 2, 4, missing, 4, 2, 4 with period 2: the seed completes at index 4, over the gap
C26_Witness ==
  /\ Returned("computeRsi")
  /\ call.period = 2
  /\ Closes = << Num(2), Num(4), Null, Num(4), Num(2), Num(4) >>
  /\ result.value = << Null, Null, Null, Null, Num(50), Num(75) >>

\* ------------------------------------------------- claims on the highlight
\* C29: whenever a highlight is present it refers to a candle of the full
\* sequence (0 <= globalIndex < n and its candle is candles[globalIndex]), the tap
\* x is below the drawable width, candleWidth > 0 and the slice is not empty;
\* with no candles, no drawable width or candleWidth <= 0 there is no highlight.
C29_HighlightIsRealCandle ==
  /\ (highlight # Null) =>
       /\ 0 <= highlight.globalIndex /\ highlight.globalIndex < candleCount
       /\ highlight.candle = candles[highlight.globalIndex + 1]
       /\ Lt(Num(tapPosition.x), chartWidth)
       /\ Lt(Zero, candleWidth)
       /\ Len(viewportSlice.candles) > 0
  /\ (candleCount = 0 \/ Le(chartWidth, Zero) \/ Le(candleWidth, Zero)) => highlight = Null

\* a highlight in a window that does not start at the first candle
C29_Witness ==
  /\ highlight # Null
  /\ viewportSlice.startIndex > 0
  /\ highlight.index > 0
  /\ highlight.globalIndex = viewportSlice.startIndex + highlight.index

\* ------------------------------------------------- claims on repeated updates
\* the idempotence half of C27: a pan update repeated with the same translation, or
\* a pinch update repeated with the same scale and focal x, with no event in
\* between, changes neither candleWidth nor startOffset (gestures begun on an
\* initialised chart), and no pan update changes candleWidth.
RepeatedUpdateChangesNothing ==
  [][ /\ ( /\ lastOp.op = "panUpdate" /\ lastOp'.op = "panUpdate"
           /\ lastOp'.translationX = lastOp.translationX
           /\ Lt(Zero, panBegin.candleWidth) )
         => (candleWidth' = candleWidth /\ startOffset' = startOffset)
      /\ ( /\ lastOp.op = "pinchUpdate" /\ lastOp'.op = "pinchUpdate"
           /\ lastOp'.scale = lastOp.scale /\ lastOp'.focalX = lastOp.focalX
           /\ Lt(Zero, pinchBegin.candleWidth) )
         => (candleWidth' = candleWidth /\ startOffset' = startOffset)
      /\ (lastOp'.op = "panUpdate") => candleWidth' = candleWidth ]_vars

DataCandleCounts == {3, 27, 28}

\* the parent renders the chart again with a candle sequence of another length:
\* the component keeps layoutSize, candleWidth, startOffset and every ref (no
\* effect depends on candles); viewportSlice and highlight are derived anew.
candlesReplaced(count) ==
  /\ count # candleCount
  /\ count >= 1
  /\ Tick
  /\ candleCount' = count
  /\ lastOp' = [op |-> "candles", from |-> candleCount]
  /\ onCandlePressCall' = Null
  /\ UNCHANGED << initialVisibleCandleCount, tapPosition, pointers >>
  /\ UNCHANGED gestureVars

DataInit ==
  /\ Init
  /\ candleCount \in DataCandleCounts

DataNext ==
  \/ \E sz \in LayoutSizes : handleLayout(sz.width, sz.height)
  \/ \E count \in DataCandleCounts : candlesReplaced(count)
  \/ handlePanStart
  \/ \E t \in Translations : handlePanUpdate(Num(t))

DataSpec == DataInit /\ [][DataNext]_vars

ViewportValid(w, cw, so, count) ==
  /\ WidthInZoomRange(w, cw, count)
  /\ Le(Zero, so)
  /\ Le(so, MaxOffsetBound(w, cw, count))

\* C28 as stated: when the candles of an initialised chart whose viewport is
\* within its bounds are replaced by a sequence of another length n' >= 1 and
\* the layout is unchanged, candleWidth is within [W/n', W/min(14, n')] and
\* startOffset within [0, maxStartOffset(W, candleWidth, n')] right after.
C28_ReplacementKeepsViewportValid ==
  [][ ( /\ lastOp'.op = "candles"
        /\ initialised /\ Lt(Zero, chartWidth)
        /\ ViewportValid(chartWidth, candleWidth, startOffset, candleCount) )
      => ViewportValid(chartWidth, candleWidth', startOffset', candleCount') ]_vars

\* ------------------------------------------------- overlay placement
FINGER_MARGIN == 32
TIME_LABEL_HEIGHT == 24

\* the sizes the info panel is measured with, touches and layouts of the overlay runs
OverlaySizes == { [width |-> 80, height |-> 40], [width |-> 300, height |-> 40],
                  [width |-> 80, height |-> 120] }
OverlayTouchXs == {20, 95, 180}
OverlayTouchYs == {30, 90}
OverlayLayoutSizes == { [width |-> 248, height |-> 100], [width |-> 248, height |-> 200] }

\* line 216
chartHeightOf(height) == Num(IntMax(height - TIME_LABEL_HEIGHT, 0))

overlayPlacement_byMidpoint(screenX, tap, size, layout) ==
  [dx |-> IF Le(screenX, Div(Num(layout.width), Num(2)))
          THEN Add(screenX, Num(FINGER_MARGIN))
          ELSE Sub(screenX, Num(size.width + FINGER_MARGIN)),
   dy |-> IF tap # Null THEN Num(tap.y - size.height - FINGER_MARGIN) ELSE Zero]

\* lines 296-300 and 308: the placement before any clamping
overlayPlacement(screenX, tap, size, layout) ==
  [dx |-> IF Le(Add(screenX, Num(FINGER_MARGIN)), Div(Num(layout.width), Num(2)))
          THEN Add(screenX, Num(FINGER_MARGIN))
          ELSE Sub(screenX, Num(size.width + FINGER_MARGIN)),
   dy |-> IF tap # Null THEN Num(tap.y - size.height - FINGER_MARGIN) ELSE Zero]

\* lines 302-306
overlayDx(dx, screenX, size, totalWidth) ==
  IF Lt(Div(Num(totalWidth), Num(2)), screenX) THEN MathMax(Zero, dx)
  ELSE MathMin(dx, Num(totalWidth - size.width))

\* lines 309-314
overlayDy(dy, size, layout) ==
  LET lifted == IF Lt(dy, Zero) THEN Zero ELSE dy
      bottom == Add(chartHeightOf(layout.height), Num(TIME_LABEL_HEIGHT))
  IN  IF Lt(bottom, Add(lifted, Num(size.height))) THEN Sub(bottom, Num(size.height))
      ELSE lifted

overlayPosition_noFinalClamp(hl, tap, size, layout) ==
  IF hl = Null \/ size = Null THEN Null
  ELSE [left |-> overlayDx(overlayPlacement(hl.screenX, tap, size, layout).dx, hl.screenX,
                           size, layout.width),
        top |-> overlayDy(overlayPlacement(hl.screenX, tap, size, layout).dy, size, layout)]

\* lines 292-328
overlayPosition(hl, tap, size, layout) ==
  IF hl = Null \/ size = Null THEN Null
  ELSE [left |-> clamp(overlayDx(overlayPlacement(hl.screenX, tap, size, layout).dx,
                                 hl.screenX, size, layout.width),
                       Zero, Num(layout.width - size.width)),
        top |-> clamp(overlayDy(overlayPlacement(hl.screenX, tap, size, layout).dy, size,
                                layout),
                      Zero, Num(layout.height - size.height))]

\* the overlayPosition memo evaluated for the current highlight and a measured
\* panel size
overlayPositionCall(size) ==
  /\ highlight # Null
  /\ steps < MaxSteps
  /\ steps' = steps + 1
  /\ call' = [fn |-> "overlayPosition", screenX |-> highlight.screenX,
              tapPosition |-> tapPosition, overlaySize |-> size, layoutSize |-> layoutSize]
  /\ result' = Return(overlayPosition(highlight, tapPosition, size, layoutSize))
  /\ UNCHANGED << candleCount, initialVisibleCandleCount, tapPosition, pointers,
                  onCandlePressCall, lastOp >>
  /\ UNCHANGED gestureVars

OverlayInit ==
  /\ Init
  /\ candleCount = 28
  /\ initialVisibleCandleCount = 20

OverlayNext ==
  \/ \E sz \in OverlayLayoutSizes : handleLayout(sz.width, sz.height)
  \/ \E x \in OverlayTouchXs, y \in OverlayTouchYs : onTouchStart(x, y)
  \/ \E x \in OverlayTouchXs, y \in OverlayTouchYs : onTouchMove(x, y)
  \/ \E size \in OverlaySizes : overlayPositionCall(size)

OverlaySpec == OverlayInit /\ [][OverlayNext]_vars

\* ------------------------------------------------- claims on the overlay
OverlayComputed == call # Null /\ call.fn = "overlayPosition" /\ result # Null

PanelInside(pos, size, layout) ==
  /\ Le(Zero, pos.left) /\ Le(Add(pos.left, Num(size.width)), Num(layout.width))
  /\ Le(Zero, pos.top) /\ Le(Add(pos.top, Num(size.height)), Num(layout.height))

PanelFits(size, layout) == size.width <= layout.width /\ size.height <= layout.height

NonFiniteNumbers == { PosInfinity, NegInfinity, NaN }
GlitchTranslations == { Num(40) } \cup NonFiniteNumbers
GlitchScales == { Num(2) } \cup NonFiniteNumbers
GlitchFocalXs == { Num(50) } \cup NonFiniteNumbers
GlitchViewports ==
  { [candleWidth |-> cw, startOffset |-> so, visibleCount |-> Num(5)] :
    cw \in { Num(10), PosInfinity, NaN }, so \in { Num(50) } \cup NonFiniteNumbers }

\* sliceCandlesForViewport applied to the chart's candles and a viewport that may
\* hold non-finite numbers
sliceGlitchCall(vp) ==
  /\ steps < MaxSteps
  /\ steps' = steps + 1
  /\ call' = [fn |-> "sliceCandlesForViewport", total |-> candleCount, viewport |-> vp]
  /\ result' = Return(sliceCandlesForViewport([candles |-> candles, leadingTrends |-> Null,
                                                trailingTrends |-> Null], vp))
  /\ UNCHANGED << candleCount, initialVisibleCandleCount, tapPosition, pointers,
                  onCandlePressCall, lastOp >>
  /\ UNCHANGED gestureVars

GlitchInit ==
  /\ Init
  /\ candleCount = 28
  /\ initialVisibleCandleCount = 20

GlitchNext ==
  \/ \E sz \in OverlayLayoutSizes : handleLayout(sz.width, sz.height)
  \/ \E f \in GlitchFocalXs : handlePinchStart(f)
  \/ \E s \in GlitchScales, f \in GlitchFocalXs : handlePinchUpdate(s, f)
  \/ handlePanStart
  \/ \E t \in GlitchTranslations : handlePanUpdate(t)
  \/ \E vp \in GlitchViewports : sliceGlitchCall(vp)

GlitchSpec == GlitchInit /\ [][GlitchNext]_vars

\* ------------------------------------------------- claims on non-finite input
GlitchUpdate ==
  \/ lastOp.op = "panUpdate" /\ ~IsFinite(lastOp.translationX)
  \/ lastOp.op = "pinchUpdate" /\ (~IsFinite(lastOp.scale) \/ ~IsFinite(lastOp.focalX))

\* the part of C24 that the code keeps: after an update with a non-finite
\* coordinate candleWidth and startOffset are finite and within their bounds
GlitchNeverPropagates ==
  (initialised /\ Lt(Zero, chartWidth) /\ GlitchUpdate) =>
    /\ IsFinite(candleWidth) /\ IsFinite(startOffset)
    /\ ViewportValid(chartWidth, candleWidth, startOffset, candleCount)

\* the slicer part of C24: a non-finite startOffset / candleWidth ratio gives a
\* startIndex within [0, n - 1]
GlitchSliceStartsInside ==
  ( /\ call # Null /\ call.fn = "sliceCandlesForViewport" /\ result # Null
    /\ ~IsFinite(Div(call.viewport.startOffset,
                     MathMax(MathAbs(call.viewport.candleWidth), EPSILON))) )
  => (0 <= result.value.startIndex /\ result.value.startIndex <= call.total - 1)

\* C24 as stated: a non-finite pan translation, pinch scale or focal x never
\* propagates, and the non-finite quantity is replaced by the bound nearest to
\* it: a +Infinity target offset gives maxStartOffset, a -Infinity target gives
\* 0; a non-finite ratio in the slicer gives a startIndex within [0, n - 1].
C24_NonFiniteGoesToNearestBound ==
  /\ GlitchNeverPropagates
  /\ GlitchSliceStartsInside
  /\ (initialised /\ Lt(Zero, chartWidth) /\ lastOp.op = "panUpdate") =>
       /\ lastOp.translationX = NegInfinity =>
            startOffset = MaxOffsetBound(chartWidth, candleWidth, candleCount)
       /\ lastOp.translationX = PosInfinity => startOffset = Zero

====
